---- MODULE Spec2Model ----
(***************************************************************************)
(* A model of the genetic algorithm that tunes a PID controller            *)
(* (src/src/algorithm/GeneticAlgorithm.py) and of the control system it    *)
(* scores chromosomes with (src/src/algorithm/ControlSystem.py).           *)
(*                                                                         *)
(* Numbers.  The program computes in floats; the model computes in exact   *)
(* rationals.  A quantity of the control system is an integer numerator    *)
(* over the common denominator sim.den, a power of 5: the plant law's      *)
(* coefficients 2.6 and 1.2 are 13/5 and 6/5, so one plant update          *)
(* multiplies the denominator by 5.  A random draw random() in [0,1) is a  *)
(* point r/Grid of a grid, r in 0..Grid-1, and a comparison with a         *)
(* threshold is cross-multiplied.                                          *)
(***************************************************************************)
EXTENDS Integers, Sequences, FiniteSets, TLC

VARIABLES
    \* GeneticAlgorithm: the configuration read by __init__
    population_number, pid_boundary, eta_boundary, crossover_rate, mutation_probability,
    \* GeneticAlgorithm: the chromosome objects, and the lists of references to them
    heap,               \* the Chromosome objects alive, by reference 1..Len(heap)
    populations,        \* self.populations: references into heap
    new_populations,    \* produce_next_generation's new_populations
    fitness_values,     \* produce_next_generation's fitness_values
    parent_index,       \* the index __select returned last (0-based), -1 before any
    pc,                 \* where produce_next_generation is: "idle" or "loop"
    outcome,            \* how the last produce_next_generation call ended
    \* one call of __select or __cross_over on its own
    drawn,              \* __select: the baseline index, then the k drawn indices
    child,              \* __cross_over: what it returned
    \* ControlSystem
    sim                 \* the instance: its attributes, and where run() is

config_vars == <<population_number, pid_boundary, eta_boundary, crossover_rate,
                 mutation_probability>>
ga_vars == <<heap, populations, new_populations, fitness_values, parent_index, pc, outcome>>
call_vars == <<drawn, child>>
vars == <<config_vars, ga_vars, call_vars, sim>>

----------------------------------------------------------------------------
(* Bounds of the control-system inputs *)

MaxPeriod == 1      \* config["period"] ranges over 1..MaxPeriod
MaxSlicing == 4     \* config["slicing-per-period"] ranges over 1..MaxSlicing
MaxGain == 1        \* kp, ki, kd of the simulated chromosome range over 0..MaxGain
MaxInitialY == 1    \* config["initial-y-now"] ranges over 0..MaxInitialY
MaxRuns == 2        \* run() is called at most MaxRuns times on an instance
MaxTicks == 7       \* at most MaxTicks loop iterations are taken on an instance

----------------------------------------------------------------------------
(* ControlSystem.py *)

Abs(x) == IF x < 0 THEN -x ELSE x

\* numpy.linspace(start=0, stop=1, num=n)[k] as the fraction <<numerator, denominator>>:
\* n uniformly spaced points with both end points, k/(n-1); the single point of n = 1 is 0.
LinspaceEndpointExcluded(k, n) == <<k, n>>
Linspace(k, n) == IF n = 1 THEN <<0, 1>> ELSE <<k, n - 1>>

\* scipy.signal.square(2*pi*x) for x = p/q: +1 where the phase modulo 2*pi is below
\* half a cycle (duty 0.5), -1 elsewhere.
Square(p, q) == IF 2 * (p % q) < q THEN 1 ELSE -1

\* ControlSystem.__init_input_signal
InitInputSignal(period, slicing_per_period) ==
    LET num == period * slicing_per_period
    IN  [k \in 1..num |->
            LET x == Linspace(k - 1, num)
            IN  Square(period * x[1], x[2])]

\* sin(x): 0 at 0; elsewhere it is no rational, and it is never evaluated because
\* every chromosome simulated here has eta = 0.
Sin(x) == IF x = 0 THEN 0 ELSE CHOOSE v \in {} : TRUE

\* ControlSystem.__update_u_now: the PID law, clamped into u_boundary.
UpdateUNow(self) ==
    LET u_next == self.kp * self.error_now
                  + self.ki * self.error_sum
                  + self.kd * (self.error_now - self.error_fore)
        low    == self.u_boundary[1] * self.den
        high   == self.u_boundary[2] * self.den
    IN  [self EXCEPT !.u_now = IF u_next < low THEN low
                               ELSE IF u_next > high THEN high
                               ELSE u_next]

\* ControlSystem.__update_y_now: the plant law.  With every quantity over self.den,
\* 2.6*y_now - 1.2*y_fore + u_now + 1.2*u_fore is
\* (13*y_now - 6*y_fore + 5*u_now + 6*u_fore) over 5*self.den; the other quantities
\* are brought to the new denominator.
UpdateYNow(self) ==
    LET linear == 13 * self.y_now - 6 * self.y_fore + 5 * self.u_now + 6 * self.u_fore
        eta_term == IF self.eta = 0 THEN 0
                    ELSE 5 * self.eta * self.y_now
                         * Sin(self.u_now + self.u_fore + self.y_now + self.y_fore)
    IN  [self EXCEPT !.den = 5 * self.den,
                     !.y_now = linear + eta_term,
                     !.y_fore = 5 * self.y_fore,
                     !.u_now = 5 * self.u_now,
                     !.u_fore = 5 * self.u_fore,
                     !.error_now = 5 * self.error_now,
                     !.error_fore = 5 * self.error_fore,
                     !.error_sum = 5 * self.error_sum]

\* ControlSystem.__init_system_parameter.  The histories hold <<numerator, denominator>>.
InitSystemParameterEmptyHistory(self) ==
    LET s1 == [self EXCEPT !.y_fore = 0,
                           !.y = <<>>,
                           !.error_now = self.input_signal[1] * self.den - self.y_now,
                           !.error_fore = 0,
                           !.error_sum = 0,
                           !.errors = <<>>,
                           !.u_now = 0]
    IN  [UpdateUNow(s1) EXCEPT !.u_fore = 0]
InitSystemParameter(self) ==
    LET error_now == self.input_signal[1] * self.den - self.y_now
        s1 == [self EXCEPT !.y_fore = 0,
                           !.y = << <<self.y_now, self.den>> >>,
                           !.error_now = error_now,
                           !.error_fore = 0,
                           !.error_sum = 0,
                           !.errors = << <<error_now, self.den>> >>,
                           !.u_now = 0]
        s2 == UpdateUNow(s1)
    IN  [s2 EXCEPT !.u_fore = 0]

\* ControlSystem.__init__
ControlSystemInit(chromosome, config) ==
    LET self == [y_now |-> config.initial_y_now,
                 den |-> 1,
                 period |-> config.period,
                 slicing_per_period |-> config.slicing_per_period,
                 u_boundary |-> config.u_boundary,
                 kp |-> chromosome.kp,
                 ki |-> chromosome.ki,
                 kd |-> chromosome.kd,
                 eta |-> chromosome.eta,
                 input_signal |-> InitInputSignal(config.period, config.slicing_per_period),
                 y_fore |-> 0, y |-> <<>>, error_now |-> 0, error_fore |-> 0,
                 error_sum |-> 0, errors |-> <<>>, u_now |-> 0, u_fore |-> 0,
                 pc |-> "constructed", index |-> 0, runs |-> 0, ticks |-> 0]
    IN  InitSystemParameter(self)

\* The body of run()'s loop for one value of index (0-based, as in the source).
RunBody(self, index) ==
    LET s1 == UpdateYNow(self)
        s2 == [s1 EXCEPT !.error_now = s1.input_signal[index + 1] * s1.den - s1.y_now]
        s3 == UpdateUNow(s2)
        s4 == [s3 EXCEPT !.error_sum = s3.error_sum + s3.error_now,
                         !.errors = Append(s3.errors, <<s3.error_now, s3.den>>),
                         !.error_fore = s3.error_now]
        s5 == [s4 EXCEPT !.y = Append(s4.y, <<s4.y_now, s4.den>>),
                         !.y_fore = s4.y_now]
    IN  [s5 EXCEPT !.u_fore = s5.u_now]

\* range(1, period * slicing_per_period, 1) of run()
RangeStop(self) == self.period * self.slicing_per_period

\* ControlSystem.get_fitness_value: sum(abs(errors)), over the denominator self.den.
RECURSIVE SumAbs(_, _)
SumAbs(errors, den) ==
    IF errors = <<>> THEN 0
    ELSE Abs(Head(errors)[1]) * (den \div Head(errors)[2]) + SumAbs(Tail(errors), den)

GetFitnessValue(self) == SumAbs(self.errors, self.den)

----------------------------------------------------------------------------
(* The control system on its own: an instance is constructed, and run() is called *)

SimChromosomes ==
    [kp : 0..MaxGain, ki : 0..MaxGain, kd : 0..MaxGain, eta : {0}]

SimConfigs ==
    [initial_y_now : 0..MaxInitialY,
     period : 1..MaxPeriod,
     slicing_per_period : 1..MaxSlicing,
     u_boundary : {<<-1, 1>>}]

InitCS ==
    /\ \E chromosome \in SimChromosomes, config \in SimConfigs :
           sim = ControlSystemInit(chromosome, config)
    /\ population_number = 0 /\ pid_boundary = <<0, 0>> /\ eta_boundary = <<0, 0>>
    /\ crossover_rate = 0 /\ mutation_probability = 0
    /\ heap = <<>> /\ populations = <<>> /\ new_populations = <<>>
    /\ fitness_values = <<>> /\ parent_index = -1 /\ pc = "idle" /\ outcome = "none"
    /\ drawn = <<>> /\ child = [branch |-> -1]

\* run() is called: the loop starts at index 1, and ends at once when the range is empty.
RunCall ==
    /\ sim.pc \in {"constructed", "done"}
    /\ sim.runs < MaxRuns
    /\ sim' = IF 1 < RangeStop(sim)
              THEN [sim EXCEPT !.pc = "loop", !.index = 1]
              ELSE [sim EXCEPT !.pc = "done", !.runs = sim.runs + 1]
    /\ UNCHANGED <<config_vars, ga_vars, call_vars>>

\* One iteration of run()'s loop; after the last one run() returns.
RunIteration ==
    /\ sim.pc = "loop"
    /\ sim.ticks < MaxTicks
    /\ LET s == RunBody(sim, sim.index)
       IN  sim' = IF sim.index + 1 < RangeStop(sim)
                  THEN [s EXCEPT !.index = sim.index + 1, !.ticks = sim.ticks + 1]
                  ELSE [s EXCEPT !.pc = "done", !.runs = sim.runs + 1,
                                 !.ticks = sim.ticks + 1]
    /\ UNCHANGED <<config_vars, ga_vars, call_vars>>

NextCS == RunCall \/ RunIteration

SpecCS == InitCS /\ [][NextCS]_vars

----------------------------------------------------------------------------
(* Bounds of the genetic-algorithm inputs *)

Grid == 5           \* random() is one of r/Grid, r in 0..Grid-1
ScaleSteps == 1     \* uniform(-0.3, 0.3) is one of s*0.3/ScaleSteps, s in -ScaleSteps..ScaleSteps
MaxFit == 1         \* a fitness value is one of 0..MaxFit
MaxLen == 4         \* __select on its own: fitness_values of length 1..MaxLen

\* One gene unit is 0.3/(ScaleSteps*Grid), so that the perturbation
\* random() * value_scale_number = (m/Grid) * (s*0.3/ScaleSteps) is m*s gene units.

----------------------------------------------------------------------------
(* GeneticAlgorithm.py *)

\* __select's default k
K == 2

\* numpy.random.randint(low, high): an integer of [low, high), high excluded; with
\* no integer to draw (low >= high) it raises ValueError.
RandIntHighIncluded(low, high) == low..high
RandInt(low, high) == low..(high - 1)

\* numpy.random.random(): a float of [0, 1), as a numerator over Grid.
Random == 0..(Grid - 1)

\* numpy.random.uniform(low, high): a float between low and high (high itself may be
\* returned through rounding).
Uniform(low, high) == low..high

\* Chromosome.__init__
Chromosome(kp, ki, kd, eta) == [kp |-> kp, ki |-> ki, kd |-> kd, eta |-> eta]

\* GeneticAlgorithm.__generate_initial_population: every list of population_number
\* chromosomes it can draw.
GenerateInitialPopulation(n, pid, eta) ==
    [1..n -> {Chromosome(kp, ki, kd, e) :
                 kp \in Uniform(pid[1], pid[2]), ki \in Uniform(pid[1], pid[2]),
                 kd \in Uniform(pid[1], pid[2]), e \in Uniform(eta[1], eta[2])}]

\* GeneticAlgorithm.__check_boundary
CheckBoundaryLowOnly(value, boundary) ==
    IF value < boundary[1] THEN boundary[1] ELSE value
CheckBoundary(value, boundary) ==
    IF value < boundary[1] THEN boundary[1]
    ELSE IF value > boundary[2] THEN boundary[2]
    ELSE value

\* GeneticAlgorithm.__select, given its draws: the baseline index, then the k
\* drawn indices in order (0-based indices, as in the source).
RECURSIVE SelectLoop(_, _, _)
SelectLoop(fitness, selection_index, indices) ==
    IF indices = <<>> THEN selection_index
    ELSE LET index == Head(indices)
         IN  SelectLoop(fitness,
                        IF fitness[index + 1] < fitness[selection_index + 1]
                        THEN index ELSE selection_index,
                        Tail(indices))

RECURSIVE SelectLoopWorst(_, _, _)
SelectLoopWorst(fitness, selection_index, indices) ==
    IF indices = <<>> THEN selection_index
    ELSE LET index == Head(indices)
         IN  SelectLoopWorst(fitness,
                             IF fitness[index + 1] > fitness[selection_index + 1]
                             THEN index ELSE selection_index,
                             Tail(indices))

SelectWorst(fitness, draws) == SelectLoopWorst(fitness, Head(draws), Tail(draws))
Select(fitness, draws) == SelectLoop(fitness, Head(draws), Tail(draws))

\* The draws of one __select call: randint(0, len - 1), then randint(0, len - 1, k).
SelectDraws(fitness) == [1..(K + 1) -> RandInt(0, Len(fitness) - 1)]

\* range(self.population_number) of the loop that fills new_populations: its rounds.
RoundsOneLess(n) == n - 1
Rounds(n) == n

\* The indices __select can return, over its draws.
SelectResults(fitness) == {Select(fitness, draws) : draws \in SelectDraws(fitness)}

\* GeneticAlgorithm.__cross_over, given its draws r1 (crossover or not) and r2 (the
\* band).  It returns parent_1 or parent_2 themselves (ref: the reference), or a new
\* Chromosome (ref = 0, value: its genes).  branch 0 is the return without crossover.
CrossOver(h, parent_1, parent_2, rate, r1, r2) ==
    LET p1 == h[parent_1]
        p2 == h[parent_2]
    IN  IF r1 > rate
        THEN [branch |-> 0, ref |-> parent_1, value |-> p1]
        ELSE IF 5 * r2 < Grid
        THEN [branch |-> 1, ref |-> 0, value |-> Chromosome(p2.kp, p1.ki, p1.kd, p2.eta)]
        ELSE IF 5 * r2 < 2 * Grid
        THEN [branch |-> 2, ref |-> 0, value |-> Chromosome(p1.kp, p2.ki, p1.kd, p2.eta)]
        ELSE IF 5 * r2 < 3 * Grid
        THEN [branch |-> 3, ref |-> 0, value |-> Chromosome(p1.kp, p1.ki, p2.kd, p1.eta)]
        ELSE IF 5 * r2 < 4 * Grid
        THEN [branch |-> 4, ref |-> 0, value |-> Chromosome(p2.kp, p1.ki, p2.kd, p1.eta)]
        ELSE [branch |-> 5, ref |-> parent_2, value |-> p2]

\* The results __cross_over can return, over its draws.
CrossOverResults(h, parent_1, parent_2, rate) ==
    {CrossOver(h, parent_1, parent_2, rate, r1, r2) : r1 \in Random, r2 \in Random}

\* GeneticAlgorithm.__mutation, the gene its if/elif chain perturbs: each test draws
\* a fresh random(), r[1] to r[4], against mutation_probability * 0.25, 0.5, 0.75, 1.
MutatedGene(mp, r) ==
    IF 4 * r[1] < mp THEN "kp"
    ELSE IF 2 * r[2] < mp THEN "ki"
    ELSE IF 4 * r[3] < 3 * mp THEN "kd"
    ELSE IF r[4] < mp THEN "eta"
    ELSE "none"

\* The values of mutation_probability explored, over Grid: 0, 2/Grid and 1.
MutationProbabilities == {0, 2, Grid}

\* GeneticAlgorithm.__mutation, what its draws decide: the gene perturbed and
\* random() * value_scale_number, for every mutation_probability explored.
MutationDraws ==
    {<<mp, MutatedGene(mp, r), m * s>> :
        mp \in MutationProbabilities, r \in [1..4 -> Random], m \in Random,
        s \in Uniform(-ScaleSteps, ScaleSteps)}

\* GeneticAlgorithm.__mutation: the chromosome after the perturbation decided by the
\* draws, the perturbed gene clamped into its boundary.
Mutation(chromosome, gene, perturbation, pid, eta) ==
    IF gene = "kp"
    THEN [chromosome EXCEPT !.kp = CheckBoundary(chromosome.kp + perturbation, pid)]
    ELSE IF gene = "ki"
    THEN [chromosome EXCEPT !.ki = CheckBoundary(chromosome.ki + perturbation, pid)]
    ELSE IF gene = "kd"
    THEN [chromosome EXCEPT !.kd = CheckBoundary(chromosome.kd + perturbation, pid)]
    ELSE IF gene = "eta"
    THEN [chromosome EXCEPT !.eta = CheckBoundary(chromosome.eta + 4 * perturbation, eta)]
    ELSE chromosome

\* The chromosomes __mutation can leave, over its draws.
MutationResults(chromosome, mp, pid, eta) ==
    {Mutation(chromosome, d[2], d[3], pid, eta) : d \in {x \in MutationDraws : x[1] = mp}}

\* GeneticAlgorithm.calculate_fitness: sum(abs(errors)) of a run of the control system
\* on the chromosome, a non-negative number that depends on the chromosome's genes
\* alone.  The run's sin term is no rational, so the value is left open: a fitness
\* vector is any assignment of 0..MaxFit to the gene values, read by index.
FitnessVectors(h, refs) ==
    {[i \in 1..Len(refs) |-> f[h[refs[i]]]] :
        f \in [{h[refs[i]] : i \in 1..Len(refs)} -> 0..MaxFit]}

\* Python keeps an object while it is referenced: the objects of refs, renumbered in
\* the order refs first names them.
RECURSIVE FirstNamed(_, _)
FirstNamed(refs, seen) ==
    IF refs = <<>> THEN seen
    ELSE FirstNamed(Tail(refs),
                    IF \E j \in 1..Len(seen) : seen[j] = Head(refs)
                    THEN seen ELSE Append(seen, Head(refs)))

Position(seq, x) == CHOOSE j \in 1..Len(seq) : seq[j] = x

Collected(h, refs) ==
    LET live == FirstNamed(refs, <<>>)
    IN  [heap |-> [j \in 1..Len(live) |-> h[live[j]]],
         refs |-> [i \in 1..Len(refs) |-> Position(live, refs[i])]]

----------------------------------------------------------------------------
(* The genetic algorithm: __init__, then produce_next_generation again and again *)

\* The configurations explored, as <<population-number, PID-boundary, eta-boundary,
\* crossover-rate, mutation-probability>>, the last two over Grid: a single chromosome;
\* two chromosomes, every gene over an interval; two chromosomes whose eta has room
\* inside its boundary; three chromosomes that differ in eta; and two chromosomes
\* with the rates at their ends.  With crossover-rate 2/Grid and mutation-probability 1
\* every branch of __cross_over and of __mutation is taken.
Configurations ==
    {[population_number |-> c[1], pid_boundary |-> c[2], eta_boundary |-> c[3],
      crossover_rate |-> c[4], mutation_probability |-> c[5]] :
        c \in {<<1, <<0, 1>>, <<0, 1>>, 2, Grid>>,
               <<2, <<0, 1>>, <<0, 1>>, 2, Grid>>,
               <<2, <<1, 1>>, <<0, 2>>, 2, Grid>>,
               <<3, <<0, 0>>, <<0, 1>>, 2, Grid>>,
               <<2, <<1, 1>>, <<0, 1>>, 0, 2>>,
               <<2, <<1, 1>>, <<0, 1>>, Grid, 0>>}}

Init ==
    /\ \E c \in Configurations :
        /\ population_number = c.population_number
        /\ pid_boundary = c.pid_boundary
        /\ eta_boundary = c.eta_boundary
        /\ crossover_rate = c.crossover_rate
        /\ mutation_probability = c.mutation_probability
    /\ heap \in GenerateInitialPopulation(population_number, pid_boundary, eta_boundary)
    /\ populations = [i \in 1..population_number |-> i]
    /\ new_populations = <<>>
    /\ fitness_values = <<>>
    /\ parent_index = -1
    /\ pc = "idle"
    /\ outcome = "none"
    /\ drawn = <<>>
    /\ child = [branch |-> -1]
    /\ sim = [pc |-> "none"]

\* produce_next_generation is called: the loop that fills fitness_values.
Evaluate ==
    /\ pc = "idle"
    /\ fitness_values' \in FitnessVectors(heap, populations)
    /\ new_populations' = <<>>
    /\ pc' = "loop"
    /\ UNCHANGED <<heap, populations, parent_index, outcome>>
    /\ UNCHANGED <<config_vars, call_vars, sim>>

\* An exception leaves produce_next_generation: its locals are dropped, and with
\* them the chromosomes only new_populations named.
Raise(h, exception) ==
    LET kept == Collected(h, populations)
    IN  /\ heap' = kept.heap
        /\ populations' = kept.refs
        /\ new_populations' = <<>>
        /\ fitness_values' = <<>>
        /\ pc' = "idle"
        /\ outcome' = exception

\* One round of the loop that fills new_populations: __select, the two reads of
\* self.populations, __cross_over, __mutation (in place, on the object __cross_over
\* returned) and the append; after the last round, self.populations = new_populations.
ProduceChild ==
    /\ pc = "loop"
    /\ IF RandInt(0, Len(fitness_values) - 1) = {}
       THEN /\ Raise(heap, "ValueError")
            /\ UNCHANGED parent_index
       ELSE \E selected \in SelectResults(fitness_values) :
                /\ parent_index' = selected
                /\ IF selected + 1 >= Len(populations)
                   THEN Raise(heap, "IndexError")
                   ELSE \E crossed \in CrossOverResults(heap, populations[selected + 1],
                                            populations[selected + 2], crossover_rate) :
                        \E mutated \in MutationResults(crossed.value, mutation_probability,
                                                       pid_boundary, eta_boundary) :
                        LET ref == IF crossed.ref = 0 THEN Len(heap) + 1 ELSE crossed.ref
                            h   == IF crossed.ref = 0 THEN Append(heap, mutated)
                                   ELSE [heap EXCEPT ![ref] = mutated]
                            new == Append(new_populations, ref)
                        IN  IF Len(new) < Rounds(population_number)
                            THEN /\ heap' = h
                                 /\ new_populations' = new
                                 /\ UNCHANGED <<populations, fitness_values, pc, outcome>>
                            ELSE LET kept == Collected(h, new)
                                 IN  /\ heap' = kept.heap
                                     /\ populations' = kept.refs
                                     /\ new_populations' = <<>>
                                     /\ fitness_values' = <<>>
                                     /\ pc' = "idle"
                                     /\ outcome' = "returned"
    /\ UNCHANGED <<config_vars, call_vars, sim>>

Next == Evaluate \/ ProduceChild

Spec == Init /\ [][Next]_vars

----------------------------------------------------------------------------
(* __select on its own: any fitness vector, one call *)

InitSelect ==
    /\ fitness_values \in UNION {[1..n -> 0..MaxFit] : n \in 1..MaxLen}
    /\ population_number = Len(fitness_values)
    /\ pid_boundary = <<0, 0>> /\ eta_boundary = <<0, 0>>
    /\ crossover_rate = 0 /\ mutation_probability = 0
    /\ heap = <<>> /\ populations = <<>> /\ new_populations = <<>>
    /\ parent_index = -1 /\ pc = "idle" /\ outcome = "none"
    /\ drawn = <<>> /\ child = [branch |-> -1]
    /\ sim = [pc |-> "none"]

SelectCall ==
    /\ outcome = "none"
    /\ IF RandInt(0, Len(fitness_values) - 1) = {}
       THEN /\ outcome' = "ValueError"
            /\ UNCHANGED <<drawn, parent_index>>
       ELSE \E draws \in SelectDraws(fitness_values) :
            /\ drawn' = draws
            /\ parent_index' = Select(fitness_values, draws)
            /\ outcome' = "returned"
    /\ UNCHANGED <<config_vars, heap, populations, new_populations, fitness_values, pc,
                   child, sim>>

NextSelect == SelectCall

SpecSelect == InitSelect /\ [][NextSelect]_vars

----------------------------------------------------------------------------
(* __cross_over on its own: any two parents, any crossover_rate of the grid, one call *)

InitCross ==
    /\ pid_boundary = <<0, 1>> /\ eta_boundary = <<0, 1>>
    /\ heap \in GenerateInitialPopulation(2, pid_boundary, eta_boundary)
    /\ populations = <<1, 2>>
    /\ population_number = 2
    /\ crossover_rate \in 0..Grid
    /\ mutation_probability = 0
    /\ new_populations = <<>> /\ fitness_values = <<>>
    /\ parent_index = -1 /\ pc = "idle" /\ outcome = "none"
    /\ drawn = <<>> /\ child = [branch |-> -1]
    /\ sim = [pc |-> "none"]

CrossOverCall ==
    /\ outcome = "none"
    /\ \E r1 \in Random, r2 \in Random :
        /\ drawn' = <<r1, r2>>
        /\ child' = CrossOver(heap, populations[1], populations[2], crossover_rate, r1, r2)
    /\ outcome' = "returned"
    /\ UNCHANGED <<config_vars, heap, populations, new_populations, fitness_values,
                   parent_index, pc, sim>>

NextCross == CrossOverCall

SpecCross == InitCross /\ [][NextCross]_vars

----------------------------------------------------------------------------
(* Properties of the genetic algorithm *)

InBoundary(value, boundary) == boundary[1] <= value /\ value <= boundary[2]

ChromosomeInBounds(c) ==
    /\ InBoundary(c.kp, pid_boundary)
    /\ InBoundary(c.ki, pid_boundary)
    /\ InBoundary(c.kd, pid_boundary)
    /\ InBoundary(c.eta, eta_boundary)

\* C1: in every state reached from __init__ by produce_next_generation calls, every
\* chromosome of the population, and every child that crossover and mutation have
\* produced so far, has kp, ki and kd inside PID-boundary and eta inside eta-boundary.
C1_GenesInBounds ==
    /\ \A i \in 1..Len(populations) : ChromosomeInBounds(heap[populations[i]])
    /\ \A i \in 1..Len(new_populations) : ChromosomeInBounds(heap[new_populations[i]])

\* A second generation is under way, the boundaries are intervals, and the new
\* population holds a child on the upper PID boundary whose eta is on the lower one.
C1_Witness ==
    /\ outcome = "returned"
    /\ pid_boundary[1] < pid_boundary[2]
    /\ eta_boundary[1] < eta_boundary[2]
    /\ \E i \in 1..Len(new_populations) :
        /\ heap[new_populations[i]].kp = pid_boundary[2]
        /\ heap[new_populations[i]].eta = eta_boundary[1]

\* C2: produce_next_generation never reads self.populations out of range: every index
\* __select has returned, and the index after it, is one of 0..population_number-1,
\* and no call ends in an IndexError.
C2_ReadsInRange ==
    /\ outcome # "IndexError"
    /\ parent_index # -1 =>
        /\ 0 <= parent_index
        /\ parent_index + 1 <= population_number - 1

\* The second parent was read at the last index of a population of three.
C2_Witness ==
    /\ population_number = 3
    /\ parent_index + 1 = population_number - 1
    /\ Len(new_populations) >= 1

\* C6: whatever the draws, and however many produce_next_generation calls have been
\* made, the population holds population_number chromosomes.
C6_PopulationSize == Len(populations) = population_number

\* A call has returned a new population, of more than one chromosome.
C6_Witness ==
    /\ outcome = "returned"
    /\ pc = "idle"
    /\ population_number >= 2

\* C8: producing one child changes the genes of no chromosome of the current
\* population and of no child already placed in the new population.
C8_NoChromosomeChangedInPlace ==
    [][/\ (pc = "loop" /\ pc' = "loop")
            => \A ref \in 1..Len(heap) : heap'[ref] = heap[ref]
       /\ (pc = "loop" /\ outcome' = "returned" /\ pc' = "idle")
            => \A i \in 1..Len(new_populations) :
                   heap'[populations'[i]] = heap[new_populations[i]]]_vars

----------------------------------------------------------------------------
(* Properties of __select *)

\* C7: the index __select returns is one of the indices it examined (the baseline
\* and the k drawn ones), and its fitness is <= the fitness of each of them.
C7_SelectsBestOfPool ==
    outcome = "returned" =>
        /\ \E j \in 1..Len(drawn) : drawn[j] = parent_index
        /\ \A j \in 1..Len(drawn) :
               fitness_values[parent_index + 1] <= fitness_values[drawn[j] + 1]

\* A drawn index beat the baseline: the returned index is not the baseline, whose
\* fitness is greater.
C7_Witness ==
    /\ outcome = "returned"
    /\ parent_index # drawn[1]
    /\ fitness_values[parent_index + 1] < fitness_values[drawn[1] + 1]

\* C9: every population index, the last one included, can be returned by __select.
C9_EveryIndexSelectable ==
    \A i \in 0..(Len(fitness_values) - 1) : i \in SelectResults(fitness_values)

----------------------------------------------------------------------------
(* Properties of __cross_over *)

\* C5: with crossover_rate = 0 the child has parent_1's genes, and with
\* crossover_rate = 1 the child comes from one of the five bands, whatever the draws.
C5_RateZeroAndRateOne ==
    outcome = "returned" =>
        /\ crossover_rate = 0 => child.value = heap[populations[1]]
        /\ crossover_rate = Grid => child.branch \in 1..5

----------------------------------------------------------------------------
(* Properties of the control system *)

Samples == sim.period * sim.slicing_per_period

\* C3, as claimed: whenever run() has returned, y and errors hold
\* period * slicing_per_period values.
C3_LengthAfterEveryRun ==
    sim.pc = "done" => Len(sim.y) = Samples /\ Len(sim.errors) = Samples

\* C3, amended: when the first run() on an instance has returned, y and errors hold
\* period * slicing_per_period values; each further run() appends one value less than
\* that to each.
C3_LengthAfterFirstRun ==
    /\ (sim.pc = "done" /\ sim.runs = 1) =>
           Len(sim.y) = Samples /\ Len(sim.errors) = Samples
    /\ sim.pc = "done" =>
           /\ Len(sim.y) = 1 + sim.runs * (Samples - 1)
           /\ Len(sim.errors) = 1 + sim.runs * (Samples - 1)

\* The first run() of an instance of four samples has returned.
C3_Witness ==
    /\ sim.pc = "done"
    /\ sim.runs = 1
    /\ Samples = 4
    /\ Len(sim.y) = 4

\* Each error value is the reference sample of its index minus the output of its index.
ErrorsAgainst(signal) ==
    \A k \in 1..Len(sim.errors) :
        /\ sim.errors[k][2] = sim.y[k][2]
        /\ sim.errors[k][1] = signal[k] * sim.y[k][2] - sim.y[k][1]

\* C4, as claimed: with period = 1 and slicing-per-period = 4 the reference signal is
\* +1, +1, -1, -1, and run() leaves 4 error values computed against it.
C4_SignalEndsLow ==
    (sim.period = 1 /\ sim.slicing_per_period = 4) =>
        /\ sim.input_signal = <<1, 1, -1, -1>>
        /\ sim.pc = "done" =>
            Len(sim.errors) = 4 /\ ErrorsAgainst(<<1, 1, -1, -1>>)

\* C4, amended: with period = 1 and slicing-per-period = 4 the reference signal is
\* +1, +1, -1, +1, and the first run() leaves 4 error values computed against it.
C4_SignalEndsHigh ==
    (sim.period = 1 /\ sim.slicing_per_period = 4) =>
        /\ sim.input_signal = <<1, 1, -1, 1>>
        /\ (sim.pc = "done" /\ sim.runs = 1) =>
            Len(sim.errors) = 4 /\ ErrorsAgainst(<<1, 1, -1, 1>>)

\* The first run() of the configuration period = 1, slicing-per-period = 4, with
\* kp = 1 and ki = kd = 0, has returned.
C4_Witness ==
    /\ sim.period = 1 /\ sim.slicing_per_period = 4
    /\ sim.kp = 1 /\ sim.ki = 0 /\ sim.kd = 0
    /\ sim.pc = "done" /\ sim.runs = 1
    /\ Len(sim.errors) = 4

\* C10: an iteration of run() leaves in y_fore the value y_now had before the plant
\* update, and in u_fore the value u_now had before the PID law was recomputed
\* (values compared across the two denominators).
C10_ForeHoldsPreUpdateValue ==
    [][RunIteration =>
        /\ sim'.y_fore * sim.den = sim.y_now * sim'.den
        /\ sim'.u_fore * sim.den = sim.u_now * sim'.den]_vars

====
